---- MODULE Spec2Model ----
(***************************************************************************)
(* Model of the oracle-assisted part of dbt_to_dataform:                   *)
(*   SyntaxChecker  (src/dbt_to_dataform/syntax_checker.py)                *)
(*   MacroConverter (src/dbt_to_dataform/macro_converter.py)               *)
(*   main           (src/main.py)                                          *)
(*                                                                         *)
(* Text is modelled as TLA+ strings, character by character (Len, SubSeq,  *)
(* \o).  A TLA+ string literal cannot hold the backtick character, so the  *)
(* backtick (U+0060) is written "~" throughout; "~" has no other use.      *)
(***************************************************************************)
EXTENDS Integers, Sequences, FiniteSets, TLC

(***************************************************************************)
(* Python str primitives                                                   *)
(***************************************************************************)

\* s[i-1:i]: the character at position i, "" outside the string
Char(s, i) == IF 1 <= i /\ i <= Len(s) THEN SubSeq(s, i, i) ELSE ""

\* str.isspace for the whitespace characters that occur in the model
IsSpace(c) == c \in {" ", "\n", "\t", "\r"}

\* s[p:] (1-based p)
From(s, p) == IF p > Len(s) THEN "" ELSE SubSeq(s, p, Len(s))

\* s.strip()
Strip(s) ==
    LET keep == {i \in 1..Len(s) : ~IsSpace(Char(s, i))}
    IN  IF keep = {} THEN ""
        ELSE SubSeq(s, CHOOSE i \in keep : \A j \in keep : i <= j,
                       CHOOSE i \in keep : \A j \in keep : j <= i)

\* s.startswith(pat, p-1): pat occurs in s at position p
StartsAt(s, p, pat) ==
    /\ p >= 1
    /\ p + Len(pat) - 1 <= Len(s)
    /\ SubSeq(s, p, p + Len(pat) - 1) = pat

StartsWith(s, pat) == StartsAt(s, 1, pat)

EndsWith(s, pat) == Len(pat) <= Len(s) /\ StartsAt(s, Len(s) - Len(pat) + 1, pat)

\* s.find(pat, p-1) + 1: the first position >= p where pat occurs, 0 if none
Find(s, pat, p) ==
    LET hits == {i \in p..Len(s) + 1 : StartsAt(s, i, pat)}
    IN  IF hits = {} THEN 0 ELSE CHOOSE i \in hits : \A j \in hits : i <= j

\* pat in s
Contains(s, pat) == Find(s, pat, 1) # 0

UpperLetters == "ABCDEFGHIJKLMNOPQRSTUVWXYZ"
LowerLetters == "abcdefghijklmnopqrstuvwxyz"

\* the letters with another case, each with its counterpart
ToLower ==
    [c \in {SubSeq(UpperLetters, i, i) : i \in 1..Len(UpperLetters)} |->
        LET i == CHOOSE i \in 1..Len(UpperLetters) : SubSeq(UpperLetters, i, i) = c
        IN  SubSeq(LowerLetters, i, i)]
ToUpper ==
    [c \in {SubSeq(LowerLetters, i, i) : i \in 1..Len(LowerLetters)} |->
        LET i == CHOOSE i \in 1..Len(LowerLetters) : SubSeq(LowerLetters, i, i) = c
        IN  SubSeq(UpperLetters, i, i)]

\* s with every character in the domain of `map` replaced by its image
RECURSIVE MapStr(_, _, _)
MapStr(s, map, p) ==
    IF p > Len(s) THEN ""
    ELSE LET c == SubSeq(s, p, p)
         IN  (IF c \in DOMAIN map THEN map[c] ELSE c) \o MapStr(s, map, p + 1)

\* s.lower(), s.upper()
Lower(s) == MapStr(s, ToLower, 1)
Upper(s) == MapStr(s, ToUpper, 1)

\* s.replace(old, new) scanning from position p: leftmost, non-overlapping
RECURSIVE ReplaceFrom(_, _, _, _)
ReplaceFrom(s, old, new, p) ==
    IF p > Len(s) THEN ""
    ELSE IF StartsAt(s, p, old)
         THEN new \o ReplaceFrom(s, old, new, p + Len(old))
         ELSE Char(s, p) \o ReplaceFrom(s, old, new, p + 1)

Replace(s, old, new) == ReplaceFrom(s, old, new, 1)

\* s.split('\n'): the lines of s, at least one
RECURSIVE SplitLines(_)
SplitLines(s) ==
    LET nl == Find(s, "\n", 1)
    IN  IF nl = 0 THEN <<s>>
        ELSE <<SubSeq(s, 1, nl - 1)>> \o SplitLines(From(s, nl + 1))

\* '\n'.join(lines[i-1:])
RECURSIVE JoinFrom(_, _)
JoinFrom(lines, i) ==
    IF i > Len(lines) THEN ""
    ELSE IF i = Len(lines) THEN lines[i]
         ELSE lines[i] \o "\n" \o JoinFrom(lines, i + 1)

(***************************************************************************)
(* json.loads, as a recogniser: which texts it accepts.  The scanners of    *)
(* strings and numbers take the position where one starts and give the     *)
(* position after it, or 0 when json raises JSONDecodeError.               *)
(***************************************************************************)

JsonWs == {" ", "\t", "\n", "\r"}
Digits == {"0", "1", "2", "3", "4", "5", "6", "7", "8", "9"}
HexDigits == Digits \cup {"a", "b", "c", "d", "e", "f", "A", "B", "C", "D", "E", "F"}

\* the first position >= p whose character is not in `set` (Len(s) + 1 at the end)
SkipChars(s, p, set) ==
    LET stop == {i \in p..Len(s) : Char(s, i) \notin set}
    IN  IF stop = {} THEN Len(s) + 1 ELSE CHOOSE i \in stop : \A j \in stop : i <= j

SkipWs(s, p) == SkipChars(s, p, JsonWs)

\* the body of a string from position q to its closing quote (strict mode)
RECURSIVE JsonStringBody(_, _)
JsonStringBody(s, q) ==
    IF q > Len(s) THEN 0
    ELSE LET c == Char(s, q) IN
         IF c = "\"" THEN q + 1
         ELSE IF c = "\\" THEN
             IF Char(s, q + 1) \in {"\"", "\\", "/", "b", "f", "n", "r", "t"}
             THEN JsonStringBody(s, q + 2)
             ELSE IF /\ Char(s, q + 1) = "u"
                     /\ q + 5 <= Len(s)
                     /\ \A k \in 2..5 : Char(s, q + k) \in HexDigits
                  THEN JsonStringBody(s, q + 6)
                  ELSE 0
         ELSE IF c \in {"\n", "\t", "\r"} THEN 0
         ELSE JsonStringBody(s, q + 1)

\* NUMBER_RE (-?(?:0|[1-9]\d*))(\.\d+)?([eE][-+]?\d+)? matched at p, part by
\* part: each part takes the position the one before it reached
NumInt(s, q) ==
    IF Char(s, q) = "0" THEN q + 1
    ELSE IF Char(s, q) \in Digits THEN SkipChars(s, q, Digits)
    ELSE 0

NumFrac(s, q) ==
    IF Char(s, q) = "." /\ Char(s, q + 1) \in Digits
    THEN SkipChars(s, q + 1, Digits) ELSE q

NumExpDigits(s, q, e) ==
    IF Char(s, e) \in Digits THEN SkipChars(s, e, Digits) ELSE q

NumExp(s, q) ==
    IF Char(s, q) \notin {"e", "E"} THEN q
    ELSE NumExpDigits(s, q, IF Char(s, q + 1) \in {"+", "-"} THEN q + 2 ELSE q + 1)

NumRest(s, q) == IF q = 0 THEN 0 ELSE NumExp(s, NumFrac(s, q))

JsonNumber(s, p) == NumRest(s, NumInt(s, IF Char(s, p) = "-" THEN p + 1 ELSE p))

\* The decoder's position: where it reads next (p), the containers it is inside
\* of, innermost last ("o" an object, "a" an array), and what it expects there:
\* a value, an object key, or what follows a value.
JsonAt(p, stack, mode) == [p |-> p, stack |-> stack, mode |-> mode]
JsonFail == JsonAt(0, <<>>, "fail")
JsonDone == JsonAt(0, <<>>, "done")

Pop(stack) == SubSeq(stack, 1, Len(stack) - 1)

\* scan_once at the first non-blank position from st.p
JsonStepValue(s, st) ==
    LET q == SkipWs(s, st.p)
        c == Char(s, q)
        r == SkipWs(s, q + 1)
        str == JsonStringBody(s, q + 1)
        num == JsonNumber(s, q)
        lit == {l \in {"null", "true", "false", "NaN", "Infinity", "-Infinity"} :
                   StartsAt(s, q, l)}
    IN  IF c = "\"" THEN
            (IF str = 0 THEN JsonFail ELSE JsonAt(str, st.stack, "after"))
        ELSE IF c = "{" THEN
            (IF Char(s, r) = "}" THEN JsonAt(r + 1, st.stack, "after")
             ELSE IF Char(s, r) = "\"" THEN JsonAt(r, Append(st.stack, "o"), "key")
             ELSE JsonFail)
        ELSE IF c = "[" THEN
            (IF Char(s, r) = "]" THEN JsonAt(r + 1, st.stack, "after")
             ELSE JsonAt(r, Append(st.stack, "a"), "value"))
        ELSE IF num # 0 THEN JsonAt(num, st.stack, "after")
        ELSE IF lit # {} THEN JsonAt(q + Len(CHOOSE l \in lit : TRUE), st.stack, "after")
        ELSE JsonFail

\* JSONObject: a key, blanks, a colon
JsonStepKey(s, st) ==
    LET q == SkipWs(s, st.p)
        k == JsonStringBody(s, q + 1)
        c == SkipWs(s, k)
    IN  IF Char(s, q) # "\"" \/ k = 0 \/ Char(s, c) # ":" THEN JsonFail
        ELSE JsonAt(c + 1, st.stack, "value")

\* after a value: the end of the text, or the next member or the close of the
\* innermost container
JsonStepAfter(s, st) ==
    LET q == SkipWs(s, st.p)
        c == Char(s, q)
        top == st.stack[Len(st.stack)]
    IN  IF st.stack = <<>> THEN (IF q = Len(s) + 1 THEN JsonDone ELSE JsonFail)
        ELSE IF top = "o" /\ c = "}" THEN JsonAt(q + 1, Pop(st.stack), "after")
        ELSE IF top = "o" /\ c = "," THEN JsonAt(q + 1, st.stack, "key")
        ELSE IF top = "a" /\ c = "]" THEN JsonAt(q + 1, Pop(st.stack), "after")
        ELSE IF top = "a" /\ c = "," THEN JsonAt(q + 1, st.stack, "value")
        ELSE JsonFail

JsonStep(s, st) ==
    IF st.mode = "value" THEN JsonStepValue(s, st)
    ELSE IF st.mode = "key" THEN JsonStepKey(s, st)
    ELSE JsonStepAfter(s, st)

RECURSIVE JsonRun(_, _)
JsonRun(s, st) ==
    IF st.mode = "done" THEN TRUE
    ELSE IF st.mode = "fail" THEN FALSE
    ELSE JsonRun(s, JsonStep(s, st))

\* json.loads(s) returns (TRUE) or raises JSONDecodeError (FALSE)
JsonLoads(s) == JsonRun(s, JsonAt(1, <<>>, "value"))

(***************************************************************************)
(* pathlib: Path.name, Path.suffix, Path.stem of a path written with "/"   *)
(***************************************************************************)

\* the position of the last occurrence of the character c in s, 0 if none
LastIndexOf(s, c) ==
    LET at == {i \in 1..Len(s) : Char(s, i) = c}
    IN  IF at = {} THEN 0 ELSE CHOOSE i \in at : \A j \in at : j <= i

\* s[m-1:n], clamped to the string as a Python slice is
Slice(s, m, n) ==
    IF m > n \/ m > Len(s) THEN ""
    ELSE SubSeq(s, m, IF n > Len(s) THEN Len(s) ELSE n)

PathName(path) == From(path, LastIndexOf(path, "/") + 1)

\* the last dot of the name starts the suffix unless it is the name's first or
\* last character
HasSuffix(name) ==
    1 < LastIndexOf(name, ".") /\ LastIndexOf(name, ".") < Len(name)

PathSuffix(path) ==
    LET name == PathName(path)
    IN  IF HasSuffix(name) THEN From(name, LastIndexOf(name, ".")) ELSE ""

PathStem(path) ==
    LET name == PathName(path)
    IN  IF HasSuffix(name) THEN Slice(name, 1, LastIndexOf(name, ".") - 1) ELSE name

(***************************************************************************)
(* Python values that may be None                                          *)
(***************************************************************************)

PyNone == [t |-> "None"]
PyStr(s) == [t |-> "str", v |-> s]
IsStr(x) == x.t = "str"

(***************************************************************************)
(* SyntaxChecker._extract_corrected_code                                   *)
(***************************************************************************)

\* the fence marker: three backticks
Fence == "~~~"

\* re.findall(open + r'(.*?)~~~', s, re.DOTALL) from position p: the captured
\* bodies, left to right, matches not overlapping
RECURSIVE FindAllBlocks(_, _, _)
FindAllBlocks(s, open, p) ==
    LET a == Find(s, open, p)
        b == IF a = 0 THEN 0 ELSE Find(s, Fence, a + Len(open))
    IN  IF a = 0 THEN <<>>
        ELSE IF b = 0 THEN FindAllBlocks(s, open, a + 1)
        ELSE <<Slice(s, a + Len(open), b - 1)>> \o FindAllBlocks(s, open, b + Len(Fence))

\* the first block taken where the last is meant
FirstBlock(blocks) == Strip(blocks[1])

\* blocks[-1].strip()
LastBlock(blocks) == Strip(blocks[Len(blocks)])

\* a validation that accepts everything
ValidJsonAlways(json_content) == TRUE

\* lines 203 and 213: json.loads(json_content) does not raise
ValidJson(json_content) == JsonLoads(json_content)

\* the labels of (?:Corrected|Fixed|Updated) (?:code|version): in lower case
Labels ==
    {w1 \o " " \o w2 \o ":" : w1 \in {"corrected", "fixed", "updated"},
                              w2 \in {"code", "version"}}

\* the label regex matched at p under re.IGNORECASE (low is the text in lower
\* case): the position after the colon, 0 when no label starts at p
LabelEnd(low, p) ==
    LET hit == {l \in Labels : StartsAt(low, p, l)}
    IN  IF hit = {} THEN 0 ELSE p + Len(CHOOSE l \in hit : TRUE)

\* re.search of the label regex, then group(1): what follows \s* after the
\* first label, through the end (re.DOTALL); <<>> when there is no match
LabeledSection(s) ==
    LET low == Lower(s)
        at == {p \in 1..Len(s) : LabelEnd(low, p) # 0}
        p0 == CHOOSE p \in at : \A q \in at : p <= q
    IN  IF at = {} THEN <<>>
        ELSE <<From(s, SkipChars(s, LabelEnd(low, p0), {" ", "\t", "\n", "\r"}))>>

\* the sqlx line scan: the first line that ends with an opening brace, starts
\* with config, or holds SELECT in any case
SqlxLineHit(line) ==
    \/ EndsWith(Strip(line), "{")
    \/ StartsWith(Strip(line), "config")
    \/ Contains(Upper(line), "SELECT")

SqlxLineScan(s) ==
    LET lines == SplitLines(s)
        hit == {i \in 1..Len(lines) : SqlxLineHit(lines[i])}
    IN  IF hit = {} THEN ""
        ELSE Strip(JoinFrom(lines, CHOOSE i \in hit : \A j \in hit : i <= j))

\* the json line scan: the first line starting with an opening brace from
\* which the rest of the text parses
JsonLineScan(s) ==
    LET lines == SplitLines(s)
        hit == {i \in 1..Len(lines) :
                   /\ StartsWith(Strip(lines[i]), "{")
                   /\ JsonLoads(Strip(JoinFrom(lines, i)))}
    IN  IF hit = {} THEN ""
        ELSE Strip(JoinFrom(lines, CHOOSE i \in hit : \A j \in hit : i <= j))

\* the line scan tried before the labeled section
ScanBeforeLabel(result, file_type) ==
    IF file_type = "sqlx" /\ SqlxLineScan(result) # "" THEN SqlxLineScan(result)
    ELSE IF file_type = "json" /\ JsonLineScan(result) # "" THEN JsonLineScan(result)
    ELSE IF LabeledSection(result) # <<>> THEN Strip(LabeledSection(result)[1])
    ELSE ""

\* lines 218-241: the labeled section, then the line scan of the kind, then ""
GeneralExtraction(result, file_type) ==
    IF LabeledSection(result) # <<>> THEN Strip(LabeledSection(result)[1])
    ELSE IF file_type = "sqlx" THEN SqlxLineScan(result)
    ELSE IF file_type = "json" THEN JsonLineScan(result)
    ELSE ""

_extract_corrected_code(result, file_type) ==
    LET kind == FindAllBlocks(result, Fence \o file_type, 1)
        any  == FindAllBlocks(result, Fence, 1)
    IN  IF file_type = "sqlx" THEN
            IF kind # <<>> THEN LastBlock(kind)
            ELSE IF any # <<>> THEN LastBlock(any)
            ELSE GeneralExtraction(result, file_type)
        ELSE IF file_type = "json" THEN
            IF kind # <<>> /\ ValidJson(LastBlock(kind)) THEN LastBlock(kind)
            ELSE IF any # <<>> /\ ValidJson(LastBlock(any)) THEN LastBlock(any)
            ELSE GeneralExtraction(result, file_type)
        ELSE GeneralExtraction(result, file_type)

(***************************************************************************)
(* State                                                                   *)
(***************************************************************************)

VARIABLES
    driver,        \* the entry point this run exercises
    report,        \* ConversionReport: the records add_issue appended, in order
    sc_key,        \* SyntaxChecker.anthropic_api_key is truthy
    sc_pc,         \* check_and_correct_syntax: "idle", "first", "retry", "done"
    sc_file_path,  \* its file_path argument
    sc_content,    \* its content argument
    sc_log,        \* the oracle exchanges of the current call, in order
    sc_sleeps,     \* the time.sleep(2) calls of the current call
    sc_ret,        \* what the call returned: [content, corrections]
    sc_mark,       \* Len(report) when the current call was entered
    sc_calls,      \* calls entered so far
    macros,        \* the macros directory of the dbt project: exists, files
    dirs,          \* the directories under the output root
    fs,            \* the files under the output root: path -> content
    fs_writes,     \* every write to a file under the output root, in order
    stdout,        \* the lines printed that tell what became of a unit
    mc_pc,         \* convert_macros: "idle", "next", "exchange", "write", "done"
    mc_caller,     \* who called _convert_with_anthropic
    mc_todo,       \* the units macros_dir.glob('*.sql') has yet to yield
    mc_unit,       \* macro_file.name
    mc_macro_content,
    mc_max_retries,
    mc_retry_count,
    mc_log,        \* the oracle exchanges of the current _convert_with_anthropic
    mc_sleeps,     \* its time.sleep(2) calls
    mc_ret,        \* what it returned, or that it raised
    mc_answers,    \* unit -> what _convert_with_anthropic returned for it
    mc_raised,     \* convert_macros raised
    ur_pc,         \* update_macro_references: "idle", "js", "sqlx", "done"
    ur_todo,       \* the files the current rglob has yet to yield
    ur_run,        \* runs of update_macro_references started so far
    ur_log,        \* what _update_references_in_file did, call by call
    main_pc,       \* main: "off", "start", "macros", "converting", "items",
                   \* "checking", "write", "refs", "rewriting", "report", "done",
                   \* "raised"
    main_key,      \* anthropic_api_key is truthy
    main_syntax_checker,   \* "None" or "object"
    main_macro_converter,  \* "unbound", "None" or "object"
    main_items,    \* artifacts['models'] then artifacts['yaml_files'], yet to come
    main_item,     \* the item of the current iteration
    main_path,     \* output_file_path or output_def_path
    main_converted, \* what the converter gave for the item
    main_content,  \* sqlx_content or dataform_sqlx
    main_log,      \* what main wrote for each item, against what the converter gave
    ex_pc,         \* _extract_corrected_code called on its own: "off", "idle",
                   \* "returned"
    ex_result,     \* its result argument, the response
    ex_file_type,  \* its file_type argument
    ex_ret         \* what it returned

mcVars == <<mc_pc, mc_caller, mc_todo, mc_unit, mc_macro_content, mc_max_retries,
            mc_retry_count, mc_log, mc_sleeps, mc_ret, mc_answers, mc_raised>>

urVars == <<ur_pc, ur_todo, ur_run, ur_log>>

mainVars == <<main_pc, main_key, main_syntax_checker, main_macro_converter,
              main_items, main_item, main_path, main_converted, main_content, main_log>>

ioVars == <<macros, dirs, fs, fs_writes, stdout>>

exVars == <<ex_pc, ex_result, ex_file_type, ex_ret>>

scVars == <<sc_key, sc_pc, sc_file_path, sc_content, sc_log, sc_sleeps, sc_ret,
            sc_mark, sc_calls>>

(***************************************************************************)
(* The oracle: one exchange (anthropic_client.messages.create followed by  *)
(* response.content[0].text) either raises or yields a text.               *)
(***************************************************************************)

Raise == [t |-> "raise"]
Text(s) == [t |-> "text", v |-> s]

\* texts the oracle may answer a syntax check with
CheckTexts ==
    { "Valid", " valid\n", "VALID", "Valid.", "",
      "Fixed:\n~~~sqlx\nSELECT 1\n~~~",
      "~~~json\n{\"a\": 1}\n~~~",
      "~~~json\n{\"a\": 1,}\n~~~",
      "Corrected version: SELECT 1",
      "Try:\n{\"a\": 1}",
      "I cannot tell",
      "~~~sqlx~~~" }

CheckOutcomes == {Raise} \cup {Text(s) : s \in CheckTexts}

\* the requests of SyntaxChecker: the prompt of the kind, and the prompt of the
\* kind with the content put in
_get_system_prompt(file_type) == <<"system", file_type>>
_get_user_prompt(file_type, content) == <<"user", file_type, content>>

(***************************************************************************)
(* SyntaxChecker.check_and_correct_syntax                                  *)
(***************************************************************************)

_get_file_type(file_path) ==
    IF PathSuffix(file_path) = ".sqlx" THEN "sqlx"
    ELSE IF PathName(file_path) = "dataform.json" THEN "json"
    ELSE "unknown"

NoReturn == [t |-> "pending"]
Returned(content, corrections) ==
    [t |-> "returned", content |-> content, corrections |-> corrections]
Escaped == [t |-> "raised"]

Issue(file, category, description) ==
    [file |-> file, category |-> category, description |-> description]

\* a fallback that is forgotten: the extraction is returned even when empty
CorrectedOrNothing(result, file_type, content) ==
    _extract_corrected_code(result, file_type)

\* corrected_code if corrected_code else content
CorrectedOr(result, file_type, content) ==
    LET corrected_code == _extract_corrected_code(result, file_type)
    IN  IF corrected_code # "" THEN corrected_code ELSE content

Exchange(file_type, content, outcome) ==
    [system |-> _get_system_prompt(file_type),
     user |-> _get_user_prompt(file_type, content),
     outcome |-> outcome]

\* a credential test that never finds the credential missing
KeyMissingNever(key) == FALSE

\* line 24: not self.anthropic_api_key
KeyMissing(key) == ~key

\* lines 21-34: entry, the credential test, the type test, the prompts
SC_Call(file_path, content) ==
    /\ sc_pc = "idle"
    /\ sc_file_path' = file_path
    /\ sc_content' = content
    /\ sc_log' = <<>>
    /\ sc_sleeps' = 0
    /\ sc_mark' = Len(report)
    /\ sc_calls' = sc_calls + 1
    /\ IF KeyMissing(sc_key)
       THEN sc_pc' = "done" /\ sc_ret' = Returned(content, PyNone)
       ELSE IF ~IsStr(content)
       THEN sc_pc' = "done" /\ sc_ret' = Returned(PyStr(""), PyNone)
       ELSE sc_pc' = "first" /\ sc_ret' = NoReturn
    /\ UNCHANGED <<sc_key, report>>

\* a retry made whatever the first exchange gave
FirstFailedAlways(outcome) == TRUE

\* lines 36-66: the first try block is left through its except clause
FirstFailed(outcome) == outcome = Raise

\* a response that merely contains the token taken for the token
IsValidContains(result) == Contains(Lower(result), "valid")

\* lines 52 and 84: result.lower() != "valid" is false
IsValid(result) == Lower(result) = "valid"

\* lines 36-71: the first exchange; what follows a response; on an exception
\* the handler sleeps and goes on to the retry
SC_FirstExchange(outcome) ==
    /\ sc_pc = "first"
    /\ LET file_type == _get_file_type(sc_file_path)
           result == Strip(outcome.v)
       IN  /\ sc_log' = Append(sc_log, Exchange(file_type, sc_content.v, outcome))
           /\ IF FirstFailed(outcome)
              THEN /\ sc_pc' = "retry"
                   /\ sc_sleeps' = sc_sleeps + 1
                   /\ UNCHANGED <<sc_ret, report>>
              ELSE /\ sc_pc' = "done"
                   /\ UNCHANGED sc_sleeps
                   /\ IF ~IsValid(result)
                      THEN /\ report' = Append(report,
                                  Issue(sc_file_path, "Syntax Correction",
                                        "The following changes were made: " \o result))
                           /\ sc_ret' = Returned(
                                  PyStr(CorrectedOr(result, file_type, sc_content.v)),
                                  PyStr(result))
                      ELSE /\ sc_ret' = Returned(sc_content, PyNone)
                           /\ UNCHANGED report
    /\ UNCHANGED <<sc_key, sc_file_path, sc_content, sc_mark, sc_calls>>

\* a retry whose exception is not caught
RetryFailedEscapes(content) == Escaped

\* lines 87-90: the retry raised; the handler prints and the content is kept
RetryFailed(content) == Returned(content, PyNone)

\* lines 73-90: the retry; a second exception is caught and the content kept
SC_RetryExchange(outcome) ==
    /\ sc_pc = "retry"
    /\ LET file_type == _get_file_type(sc_file_path)
           result == Strip(outcome.v)
       IN  /\ sc_log' = Append(sc_log, Exchange(file_type, sc_content.v, outcome))
           /\ sc_pc' = "done"
           /\ IF outcome = Raise
              THEN sc_ret' = RetryFailed(sc_content)
              ELSE IF ~IsValid(result)
              THEN sc_ret' = Returned(
                       PyStr(CorrectedOr(result, file_type, sc_content.v)),
                       PyStr(result))
              ELSE sc_ret' = Returned(sc_content, PyNone)
    /\ UNCHANGED <<sc_key, sc_file_path, sc_content, sc_sleeps, sc_mark, sc_calls,
                   report>>

\* the caller has the returned pair; the checker is ready for its next call
SC_Return ==
    /\ sc_pc = "done"
    /\ sc_pc' = "idle"
    /\ UNCHANGED <<sc_key, sc_file_path, sc_content, sc_log, sc_sleeps, sc_ret,
                   sc_mark, sc_calls, report>>

\* a checker nobody has called yet
SCInit(key) ==
    /\ sc_key = key
    /\ sc_pc = "idle"
    /\ sc_file_path = ""
    /\ sc_content = PyNone
    /\ sc_log = <<>>
    /\ sc_sleeps = 0
    /\ sc_ret = NoReturn
    /\ sc_mark = 0
    /\ sc_calls = 0

(***************************************************************************)
(* The file system                                                         *)
(***************************************************************************)

NoFiles == [path \in {} |-> ""]
NoMacros == [exists |-> FALSE, files |-> NoFiles]

\* the files after path has been given content
WithFile(files, path, content) ==
    [q \in DOMAIN files \cup {path} |-> IF q = path THEN content ELSE files[q]]

\* one write to a file of the output root: who wrote, where, what was to be
\* written, and whether the write went through
Write(by, path, content, complete) ==
    [by |-> by, path |-> path, content |-> content, complete |-> complete]

\* an output root with nothing in it, beside a dbt project with these macros
IOInit(m) ==
    /\ macros = m
    /\ dirs = {}
    /\ fs = NoFiles
    /\ fs_writes = <<>>
    /\ stdout = <<>>

\* a printed line about a unit
Line(msg, unit) == [msg |-> msg, unit |-> unit]

\* an item of main's loops: a model or a yaml file of the dbt project
Item(kind, path) == [kind |-> kind, path |-> path]
NoItem == Item("none", "")

(***************************************************************************)
(* MacroConverter._convert_with_anthropic and convert_macros               *)
(***************************************************************************)

DefaultMaxRetries == 3

\* texts the oracle may answer a macro conversion with
MacroTexts ==
    { "", " \n",
      "function f(x){return ~SELECT ${x}~;}",
      "\nfunction g(){}\n ",
      "~~~js\nfunction f(x){return ~SELECT ${x}~;}\n~~~" }

MacroOutcomes == {Raise} \cup {Text(s) : s \in MacroTexts}

Gave(v) == [t |-> "returned", v |-> v]

\* dataform_includes_dir / f"{macro_file.stem}.js"
OutputFile(unit) == "includes/" \o PathStem(unit) \o ".js"

\* macros_dir.glob('*.sql')
GlobSql(files) == {name \in DOMAIN files : EndsWith(name, ".sql")}

MCInit ==
    /\ mc_pc = "idle"
    /\ mc_caller = ""
    /\ mc_todo = {}
    /\ mc_unit = ""
    /\ mc_macro_content = ""
    /\ mc_max_retries = DefaultMaxRetries
    /\ mc_retry_count = 0
    /\ mc_log = <<>>
    /\ mc_sleeps = 0
    /\ mc_ret = NoReturn
    /\ mc_answers = NoFiles
    /\ mc_raised = FALSE

\* lines 106-114: the includes directory is made, the macros directory looked
\* for and listed; mkdir may raise
MC_Start(mkdir_ok) ==
    /\ mc_pc = "idle"
    /\ mc_caller' = "convert_macros"
    /\ IF ~mkdir_ok
       THEN /\ mc_pc' = "done"
            /\ mc_raised' = TRUE
            /\ UNCHANGED <<dirs, mc_todo>>
       ELSE /\ dirs' = dirs \cup {"includes"}
            /\ mc_raised' = FALSE
            /\ IF macros.exists
               THEN mc_pc' = "next" /\ mc_todo' = GlobSql(macros.files)
               ELSE mc_pc' = "done" /\ mc_todo' = {}
    /\ UNCHANGED <<mc_unit, mc_macro_content, mc_max_retries, mc_retry_count, mc_log,
                   mc_sleeps, mc_ret, mc_answers, macros, fs, fs_writes, stdout>>

\* lines 136-145: _convert_with_anthropic is entered
EnterConvert(macro_content, max_retries) ==
    /\ mc_macro_content' = macro_content
    /\ mc_max_retries' = max_retries
    /\ mc_retry_count' = 0
    /\ mc_log' = <<>>
    /\ mc_sleeps' = 0
    /\ mc_ret' = NoReturn

\* lines 116-122: the next unit is taken and read; a read that raises is caught
\* at line 133 and the loop goes on
MC_NextUnit(unit, read_ok) ==
    /\ mc_pc = "next"
    /\ unit \in mc_todo
    /\ mc_todo' = mc_todo \ {unit}
    /\ mc_unit' = unit
    /\ IF read_ok
       THEN /\ EnterConvert(macros.files[unit], DefaultMaxRetries)
            /\ mc_pc' = "exchange"
            /\ stdout' = Append(stdout, Line("Converting macro file", unit))
       ELSE /\ mc_pc' = "next"
            /\ stdout' = stdout \o <<Line("Converting macro file", unit),
                                     Line("Error converting macro", unit)>>
            /\ UNCHANGED <<mc_macro_content, mc_max_retries, mc_retry_count, mc_log,
                           mc_sleeps, mc_ret>>
    /\ UNCHANGED <<mc_caller, mc_answers, mc_raised, macros, dirs, fs, fs_writes>>

\* line 116: the glob is exhausted and convert_macros returns
MC_Finish ==
    /\ mc_pc = "next"
    /\ mc_todo = {}
    /\ mc_pc' = "done"
    /\ UNCHANGED <<mc_caller, mc_todo, mc_unit, mc_macro_content, mc_max_retries,
                   mc_retry_count, mc_log, mc_sleeps, mc_ret, mc_answers, mc_raised,
                   ioVars>>

\* an exhaustion test that is off by one
ExhaustedLate(retry_count, max_retries) == retry_count > max_retries

\* lines 158-161: the attempts are counted and the last failure is raised on
ExhaustedAfter(retry_count, max_retries) == retry_count >= max_retries

\* line 146: while retry_count < max_retries
LoopGoesOn(retry_count, max_retries) == retry_count < max_retries

\* the emptiness test left out
EmptyNever(converted_js) == FALSE

\* line 124: not converted_js.strip()
EmptyResult(converted_js) == Strip(converted_js) = ""

\* lines 124-126 and 133-134: what convert_macros does with what
\* _convert_with_anthropic gave it
AfterConvert(ret) ==
    IF mc_caller # "convert_macros" THEN
        mc_pc' = "returned" /\ UNCHANGED <<stdout, mc_answers>>
    ELSE IF ret = Escaped \/ ~IsStr(ret.v) THEN
        /\ mc_pc' = "next"
        /\ stdout' = Append(stdout, Line("Error converting macro", mc_unit))
        /\ UNCHANGED mc_answers
    ELSE
        /\ mc_answers' = WithFile(mc_answers, mc_unit, ret.v.v)
        /\ IF EmptyResult(ret.v.v)
           THEN /\ mc_pc' = "next"
                /\ stdout' = Append(stdout,
                                  Line("Warning: Empty conversion result", mc_unit))
           ELSE /\ mc_pc' = "write"
                /\ UNCHANGED stdout

\* lines 146-163: one turn of the retry loop
MC_Attempt(outcome) ==
    /\ mc_pc = "exchange"
    /\ mc_log' = Append(mc_log, [system |-> "system_prompt",
                                 user |-> <<"user", mc_macro_content>>,
                                 outcome |-> outcome])
    /\ IF outcome # Raise
       THEN /\ mc_ret' = Gave(PyStr(Strip(outcome.v)))
            /\ AfterConvert(Gave(PyStr(Strip(outcome.v))))
            /\ UNCHANGED <<mc_retry_count, mc_sleeps>>
       ELSE /\ mc_retry_count' = mc_retry_count + 1
            /\ IF ExhaustedAfter(mc_retry_count + 1, mc_max_retries)
               THEN /\ mc_ret' = Escaped
                    /\ AfterConvert(Escaped)
                    /\ UNCHANGED mc_sleeps
               ELSE /\ mc_sleeps' = mc_sleeps + 1
                    /\ IF LoopGoesOn(mc_retry_count + 1, mc_max_retries)
                       THEN UNCHANGED <<mc_ret, mc_pc, stdout, mc_answers>>
                       ELSE /\ mc_ret' = Gave(PyNone)
                            /\ AfterConvert(Gave(PyNone))
    /\ UNCHANGED <<mc_caller, mc_todo, mc_unit, mc_macro_content, mc_max_retries,
                   mc_raised, macros, dirs, fs, fs_writes>>

\* converted_js.strip(), what line 130 writes
WrittenText(converted_js) == Strip(converted_js)

\* lines 128-134: the output file is opened for writing, which empties it, and
\* written; either step may raise, and line 133 catches it
MC_Write(io) ==
    /\ mc_pc = "write"
    /\ mc_pc' = "next"
    /\ LET path == OutputFile(mc_unit)
           text == WrittenText(mc_ret.v.v)
       IN  CASE io = "ok" ->
                 /\ fs' = WithFile(fs, path, text)
                 /\ fs_writes' = Append(fs_writes, Write(mc_unit, path, text, TRUE))
                 /\ stdout' = Append(stdout, Line("Successfully converted", mc_unit))
             [] io = "open_raises" ->
                 /\ stdout' = Append(stdout, Line("Error converting macro", mc_unit))
                 /\ UNCHANGED <<fs, fs_writes>>
             [] io = "write_raises" ->
                 /\ fs' = WithFile(fs, path, "")
                 /\ fs_writes' = Append(fs_writes, Write(mc_unit, path, text, FALSE))
                 /\ stdout' = Append(stdout, Line("Error converting macro", mc_unit))
    /\ UNCHANGED <<mc_caller, mc_todo, mc_unit, mc_macro_content, mc_max_retries,
                   mc_retry_count, mc_log, mc_sleeps, mc_ret, mc_answers, mc_raised,
                   macros, dirs>>

(***************************************************************************)
(* MacroConverter.update_macro_references and _update_references_in_file   *)
(***************************************************************************)

\* main is not running: the component is driven on its own
MainOff ==
    /\ main_pc = "off"
    /\ main_key = FALSE
    /\ main_syntax_checker = "None"
    /\ main_macro_converter = "unbound"
    /\ main_items = <<>>
    /\ main_item = NoItem
    /\ main_path = ""
    /\ main_converted = ""
    /\ main_content = PyNone
    /\ main_log = <<>>

\* _extract_corrected_code is not called on its own
ExOff ==
    /\ ex_pc = "off"
    /\ ex_result = ""
    /\ ex_file_type = "unknown"
    /\ ex_ret = ""

URInit ==
    /\ ur_pc = "idle"
    /\ ur_todo = {}
    /\ ur_run = 0
    /\ ur_log = <<>>

\* definitions_dir.rglob('*' + suffix): the files below definitions, at any
\* depth, whose name ends with the suffix
RGlob(files, suffix) ==
    {path \in DOMAIN files : StartsWith(path, "definitions/") /\ EndsWith(path, suffix)}

\* lines 193-194: the two replacements, one after the other
Rewritten(content) == Replace(Replace(content, "{{ ", "${"), " }}", "}")

\* one call of _update_references_in_file: the run it belongs to, the file, what
\* the file held, what the substitution made of it, and how the call ended
Visit(run, path, before, after, outcome) ==
    [run |-> run, path |-> path, before |-> before, after |-> after,
     outcome |-> outcome]

\* lines 165-171: the definitions directory is looked for, and the .js files
\* below it come first
UR_Start ==
    /\ ur_pc \in {"idle", "done"}
    /\ ur_run' = ur_run + 1
    /\ IF "definitions" \in dirs
       THEN /\ ur_pc' = "js"
            /\ ur_todo' = RGlob(fs, ".js")
            /\ UNCHANGED stdout
       ELSE /\ ur_pc' = "done"
            /\ ur_todo' = {}
            /\ stdout' = Append(stdout, Line("Warning: definitions directory not found",
                                             "definitions"))
    /\ UNCHANGED <<ur_log, macros, dirs, fs, fs_writes>>

\* lines 183-205, called from line 174 or 177 on a file rglob yields: the file
\* is read, the substitution applied, and the file written again when that
\* changed its content; opening the file for writing empties it; the read, the
\* open and the write may each raise, and line 204 catches it
UR_File(path, io) ==
    /\ ur_pc \in {"js", "sqlx"}
    /\ path \in ur_todo
    /\ ur_todo' = ur_todo \ {path}
    /\ LET content == fs[path]
           updated_content == Rewritten(content)
           failed == Append(stdout, Line("Error updating references", PathName(path)))
       IN  CASE io = "read_raises" ->
                 /\ ur_log' = Append(ur_log, Visit(ur_run, path, content, content, io))
                 /\ stdout' = failed
                 /\ UNCHANGED <<fs, fs_writes>>
             [] io # "read_raises" /\ updated_content = content ->
                 /\ ur_log' = Append(ur_log, Visit(ur_run, path, content, content,
                                                   "unchanged"))
                 /\ UNCHANGED <<fs, fs_writes, stdout>>
             [] io = "ok" /\ updated_content # content ->
                 /\ ur_log' = Append(ur_log, Visit(ur_run, path, content,
                                                   updated_content, "written"))
                 /\ fs' = WithFile(fs, path, updated_content)
                 /\ fs_writes' = Append(fs_writes, Write(path, path, updated_content, TRUE))
                 /\ stdout' = Append(stdout, Line("Updated macro references",
                                                  PathName(path)))
             [] io = "open_raises" /\ updated_content # content ->
                 /\ ur_log' = Append(ur_log, Visit(ur_run, path, content, content, io))
                 /\ stdout' = failed
                 /\ UNCHANGED <<fs, fs_writes>>
             [] io = "write_raises" /\ updated_content # content ->
                 /\ ur_log' = Append(ur_log, Visit(ur_run, path, content, "", io))
                 /\ fs' = WithFile(fs, path, "")
                 /\ fs_writes' = Append(fs_writes, Write(path, path, updated_content, FALSE))
                 /\ stdout' = failed
    /\ UNCHANGED <<ur_pc, ur_run, macros, dirs>>

\* lines 173-181: when rglob has no more .js files the .sqlx files follow, and
\* after them the function returns; a scan that raises ends the function at
\* line 179
UR_Advance(scan_ok) ==
    /\ ur_pc \in {"js", "sqlx"}
    /\ ur_todo = {} \/ ~scan_ok
    /\ IF ~scan_ok
       THEN /\ ur_pc' = "done"
            /\ ur_todo' = {}
            /\ stdout' = Append(stdout, Line("Error updating macro references",
                                             "definitions"))
       ELSE /\ ur_pc' = IF ur_pc = "js" THEN "sqlx" ELSE "done"
            /\ ur_todo' = IF ur_pc = "js" THEN RGlob(fs, ".sqlx") ELSE {}
            /\ UNCHANGED stdout
    /\ UNCHANGED <<ur_run, ur_log, macros, dirs, fs, fs_writes>>

(***************************************************************************)
(* convert_macros over a macros directory, and _convert_with_anthropic     *)
(* called on its own                                                       *)
(***************************************************************************)

MaxUnits == 2
MaxRetriesBound == 4

\* file names of a macros directory, each with its content
MacroSources ==
    [name \in {"a.sql", ".sql", ".sql.sql", "README.md"} |->
        IF name = "README.md" THEN "macros" ELSE "SELECT {{ x }}"]

MacroDirs ==
    {NoMacros} \cup
    {[exists |-> TRUE, files |-> [name \in names |-> MacroSources[name]]] :
        names \in {n \in SUBSET DOMAIN MacroSources : Cardinality(n) <= MaxUnits}}

InitMacro ==
    /\ driver \in {"macro", "oracle"}
    /\ report = <<>>
    /\ SCInit(TRUE)
    /\ MCInit
    /\ URInit
    /\ MainOff
    /\ ExOff
    /\ IF driver = "macro" THEN \E m \in MacroDirs : IOInit(m) ELSE IOInit(NoMacros)

MacroStart ==
    /\ driver = "macro"
    /\ \E mkdir_ok \in BOOLEAN : MC_Start(mkdir_ok)
    /\ UNCHANGED <<driver, report, scVars, urVars, mainVars>>
    /\ UNCHANGED exVars

MacroNextUnit ==
    /\ driver = "macro"
    /\ \E unit \in mc_todo, read_ok \in BOOLEAN : MC_NextUnit(unit, read_ok)
    /\ UNCHANGED <<driver, report, scVars, urVars, mainVars>>
    /\ UNCHANGED exVars

MacroFinish ==
    /\ driver = "macro"
    /\ MC_Finish
    /\ UNCHANGED <<driver, report, scVars, urVars, mainVars>>
    /\ UNCHANGED exVars

MacroAttempt ==
    /\ driver \in {"macro", "oracle"}
    /\ \E outcome \in MacroOutcomes : MC_Attempt(outcome)
    /\ UNCHANGED <<driver, report, scVars, urVars, mainVars>>
    /\ UNCHANGED exVars

MacroWrite ==
    /\ driver = "macro"
    /\ \E io \in {"ok", "open_raises", "write_raises"} : MC_Write(io)
    /\ UNCHANGED <<driver, report, scVars, urVars, mainVars>>
    /\ UNCHANGED exVars

\* _convert_with_anthropic(macro_content, max_retries) called directly; with
\* max_retries = 0 the loop is not entered and the function ends without a
\* return statement
OracleCall ==
    /\ driver = "oracle"
    /\ mc_pc = "idle"
    /\ mc_caller' = "direct"
    /\ \E max_retries \in 0..MaxRetriesBound :
           /\ mc_macro_content' = "SELECT {{ x }}"
           /\ mc_max_retries' = max_retries
           /\ mc_retry_count' = 0
           /\ mc_log' = <<>>
           /\ mc_sleeps' = 0
           /\ IF LoopGoesOn(0, max_retries)
              THEN mc_pc' = "exchange" /\ mc_ret' = NoReturn
              ELSE mc_pc' = "returned" /\ mc_ret' = Gave(PyNone)
    /\ UNCHANGED <<mc_todo, mc_unit, mc_answers, mc_raised, ioVars, driver, report,
                   scVars, urVars, mainVars>>
    /\ UNCHANGED exVars

NextMacro ==
    \/ MacroStart \/ MacroNextUnit \/ MacroFinish \/ MacroAttempt \/ MacroWrite
    \/ OracleCall

(***************************************************************************)
(* update_macro_references run, and run again, over an output root         *)
(***************************************************************************)

MaxLen == 5
MaxRuns == 2

\* the characters artifact contents are made of: the delimiter characters and
\* one other
Alphabet == {"{", "}", " ", "x"}

\* every string of at most n of these characters
RECURSIVE Strings(_)
Strings(n) ==
    IF n = 0 THEN {""}
    ELSE LET shorter == Strings(n - 1)
         IN  shorter \cup {s \o c : s \in shorter, c \in Alphabet}

\* output roots: one model of any content; or, around a model and an include
\* below definitions, files the stage is not to touch
RewriteRoots ==
    {[path \in {"definitions/m.sqlx"} |-> content] : content \in Strings(MaxLen)}
    \cup
    {[path \in {"definitions/m.sqlx", "definitions/sub/u.js", "includes/a.js",
                "definitions/notes.txt"} |->
         CASE path = "definitions/m.sqlx" -> content
           [] path = "definitions/sub/u.js" -> "f(~{{ x }}~)"
           [] path = "includes/a.js" -> "function a(){return ~{{ ref('t') }}~;}"
           [] path = "definitions/notes.txt" -> "{{ x }}"] :
     content \in {"", "{{ x }}", "${x}", "{{ { "}}

InitRewrite ==
    /\ driver = "rewrite"
    /\ report = <<>>
    /\ SCInit(TRUE)
    /\ MCInit
    /\ URInit
    /\ MainOff
    /\ ExOff
    /\ macros = NoMacros
    /\ fs_writes = <<>>
    /\ stdout = <<>>
    /\ \/ dirs = {} /\ fs = NoFiles
       \/ dirs = {"definitions"} /\ fs \in RewriteRoots

RewriteStart ==
    /\ driver = "rewrite"
    /\ ur_run < MaxRuns
    /\ UR_Start
    /\ UNCHANGED <<driver, report, scVars, mcVars, mainVars>>
    /\ UNCHANGED exVars

RewriteFile ==
    /\ driver = "rewrite"
    /\ \E path \in ur_todo, io \in {"ok", "read_raises", "open_raises", "write_raises"} :
           UR_File(path, io)
    /\ UNCHANGED <<driver, report, scVars, mcVars, mainVars>>
    /\ UNCHANGED exVars

RewriteAdvance ==
    /\ driver = "rewrite"
    /\ \E scan_ok \in BOOLEAN : UR_Advance(scan_ok)
    /\ UNCHANGED <<driver, report, scVars, mcVars, mainVars>>
    /\ UNCHANGED exVars

NextRewrite == RewriteStart \/ RewriteFile \/ RewriteAdvance

(***************************************************************************)
(* check_and_correct_syntax called on its own                              *)
(***************************************************************************)

MaxCalls == 2

RepairPaths == {"definitions/m.sqlx", "dataform.json", "includes/util.js"}
RepairContents == {PyStr("SELEC 1"), PyStr("{\"a\": 1"), PyNone}

InitRepair ==
    /\ driver = "repair"
    /\ report = <<>>
    /\ \E key \in BOOLEAN : SCInit(key)
    /\ MCInit
    /\ URInit
    /\ MainOff
    /\ ExOff
    /\ IOInit(NoMacros)

RepairCall ==
    /\ driver = "repair"
    /\ sc_calls < MaxCalls
    /\ \E file_path \in RepairPaths, content \in RepairContents :
           SC_Call(file_path, content)
    /\ UNCHANGED <<driver, mcVars, ioVars, urVars, mainVars>>
    /\ UNCHANGED exVars

RepairFirst ==
    /\ driver = "repair"
    /\ \E outcome \in CheckOutcomes : SC_FirstExchange(outcome)
    /\ UNCHANGED <<driver, mcVars, ioVars, urVars, mainVars>>
    /\ UNCHANGED exVars

RepairRetry ==
    /\ driver = "repair"
    /\ \E outcome \in CheckOutcomes : SC_RetryExchange(outcome)
    /\ UNCHANGED <<driver, mcVars, ioVars, urVars, mainVars>>
    /\ UNCHANGED exVars

RepairReturn ==
    /\ driver = "repair"
    /\ SC_Return
    /\ UNCHANGED <<driver, mcVars, ioVars, urVars, mainVars>>
    /\ UNCHANGED exVars

NextRepair == RepairCall \/ RepairFirst \/ RepairRetry \/ RepairReturn

(***************************************************************************)
(* _extract_corrected_code called on its own, on responses put together    *)
(* from the pieces an oracle answers with                                  *)
(***************************************************************************)

MaxParts == 3

\* pieces of a response: prose, fenced blocks tagged sqlx, json (well-formed
\* and not), untagged, tagged with another language, tagged with a name that
\* begins with json; labeled sections; bare lines of SQL and of JSON
Pieces ==
    { "Here is the fix.\n",
      "~~~sqlx\nSELECT 1\n~~~\n",
      "~~~sqlx\n config { }\n~~~\n",
      "~~~json\n{\"a\": 1}\n~~~\n",
      "~~~json\n{\"a\": 1,}\n~~~\n",
      "~~~\nSELECT 2\n~~~\n",
      "~~~\n{\"b\": 2}\n~~~\n",
      "~~~jsonl\n{\"e\": 5}\n~~~\n",
      "Corrected version: SELECT 1\n",
      "fixed CODE:\n{\"c\": 3}\n",
      "SELECT 4\n",
      "{\"d\": 4}\n" }

\* every response of at most n pieces
RECURSIVE Responses(_)
Responses(n) ==
    IF n = 0 THEN {""}
    ELSE LET shorter == Responses(n - 1)
         IN  shorter \cup {r \o piece : r \in shorter, piece \in Pieces}

\* the kinds _get_file_type tells apart
FileTypes == {_get_file_type(file_path) : file_path \in RepairPaths}

InitExtract ==
    /\ driver = "extract"
    /\ report = <<>>
    /\ SCInit(TRUE)
    /\ MCInit
    /\ URInit
    /\ MainOff
    /\ IOInit(NoMacros)
    /\ ex_pc = "idle"
    /\ ex_result \in Responses(MaxParts)
    /\ ex_file_type \in FileTypes
    /\ ex_ret = ""

\* lines 186-241, one call
ExtractCall ==
    /\ driver = "extract"
    /\ ex_pc = "idle"
    /\ ex_pc' = "returned"
    /\ ex_ret' = _extract_corrected_code(ex_result, ex_file_type)
    /\ UNCHANGED <<driver, report, scVars, mcVars, urVars, ioVars, mainVars,
                   ex_result, ex_file_type>>

NextExtract == ExtractCall

(***************************************************************************)
(* main: the whole run over a dbt project                                  *)
(***************************************************************************)

\* what the converter of an item comes back with: an exception, nothing (a
\* None in convert_model's triple, a falsy convert_schema_yml), or a content
\* and the file it goes to
ConvRaises == [t |-> "raises"]
ConvNothing == [t |-> "nothing"]
ConvGave(content) == [t |-> "ok", content |-> content]

ModelTexts == {"SELECT {{ x }}", "-- TODO: fix\nSELECT dbt_utils.f()"}
SchemaTexts == {"config { type: ~table~ }"}

ConvResults(item) ==
    {ConvRaises, ConvNothing} \cup
    {ConvGave(content) :
        content \in IF item.kind = "model" THEN ModelTexts ELSE SchemaTexts}

\* path.with_suffix(suffix)
WithSuffix(path, suffix) ==
    Slice(path, 1, LastIndexOf(path, "/")) \o PathStem(path) \o suffix

\* lines 88-90 and 149-150: where the item's output goes
OutputPath(item) ==
    IF item.kind = "model"
    THEN "definitions/" \o PathStem(item.path) \o ".sqlx"
    ELSE "definitions/" \o WithSuffix(item.path, ".sqlx")

\* the dbt projects main is run on: the macros directory, and the models
\* followed by the yaml files the analyzer lists
MainProjects ==
    { [macros |-> [exists |-> TRUE, files |-> [n \in {"a.sql"} |-> "SELECT {{ x }}"]],
       items |-> <<Item("model", "m.sql")>>],
      [macros |-> NoMacros,
       items |-> <<Item("model", "m.sql"), Item("yaml", "models/schema.yml")>>],
      [macros |-> NoMacros,
       items |-> <<Item("yaml", "dbt_project.yml"), Item("yaml", "models/schema.yml")>>],
      [macros |-> [exists |-> TRUE, files |-> NoFiles],
       items |-> <<>>],
      [macros |-> NoMacros,
       items |-> <<Item("model", "../analyses/t.sql"), Item("model", "m.sql")>>] }

\* what the oracle may answer in a run of main
MainCheckOutcomes ==
    {Raise, Text("Valid"), Text("Fixed:\n~~~sqlx\nSELECT 1\n~~~"), Text("Looks odd.")}

MainMacroOutcomes ==
    {Raise, Text(""), Text("function f(x){return ~SELECT ${x}~;}")}

\* one write_text of main: the item, where to, what the converter gave, what
\* main wrote, and whether the write went through
Persisted(item, path, converted, written, complete) ==
    [item |-> item, path |-> path, converted |-> converted, written |-> written,
     complete |-> complete]

InitMain ==
    /\ driver = "main"
    /\ report = <<>>
    /\ SCInit(FALSE)
    /\ MCInit
    /\ URInit
    /\ ExOff
    /\ main_pc = "start"
    /\ main_key \in BOOLEAN
    /\ main_syntax_checker = "None"
    /\ main_macro_converter = "unbound"
    /\ main_item = NoItem
    /\ main_path = ""
    /\ main_converted = ""
    /\ main_content = PyNone
    /\ main_log = <<>>
    /\ \E project \in MainProjects :
           /\ IOInit(project.macros)
           /\ main_items = project.items

\* lines 24-61: the analyzer, the report, the checker when there is a key, the
\* project configuration, the project structure, the sources; an exception in
\* any of them leaves main
MainSetup ==
    /\ driver = "main"
    /\ main_pc = "start"
    /\ \E checker_ok, rest_ok \in BOOLEAN, made \in {{}, {"definitions", "includes"}} :
           IF (main_key /\ ~checker_ok) \/ ~rest_ok
           THEN /\ main_pc' = "raised"
                /\ UNCHANGED <<main_syntax_checker, sc_key, dirs>>
           ELSE /\ main_pc' = IF main_key THEN "macros" ELSE "items"
                /\ main_syntax_checker' = IF main_key THEN "object" ELSE "None"
                /\ sc_key' = main_key
                /\ dirs' = made
    /\ UNCHANGED <<driver, report, sc_pc, sc_file_path, sc_content, sc_log, sc_sleeps,
                   sc_ret, sc_mark, sc_calls, mcVars, urVars, macros, fs, fs_writes,
                   stdout, main_key, main_macro_converter, main_items, main_item,
                   main_path, main_converted, main_content, main_log>>
    /\ UNCHANGED exVars

\* lines 65-76, what follows an exception of the macro conversion
MacrosFailed(e) ==
    /\ report' = Append(report, Issue("macro_conversion", "Macro Conversion Error",
                                      "Error occurred during macro conversion: " \o e))
    /\ main_macro_converter' = "None"

\* lines 63-67: with a key the converter is made and convert_macros entered
MainMacros ==
    /\ driver = "main"
    /\ main_pc = "macros"
    /\ \E construct_ok, mkdir_ok \in BOOLEAN :
           IF ~construct_ok
           THEN /\ MacrosFailed("MacroConverter.__init__")
                /\ main_pc' = "items"
                /\ UNCHANGED <<mcVars, ioVars>>
           ELSE /\ MC_Start(mkdir_ok)
                /\ IF mkdir_ok
                   THEN /\ main_macro_converter' = "object"
                        /\ main_pc' = IF mc_pc' = "done" THEN "items" ELSE "converting"
                        /\ UNCHANGED report
                   ELSE /\ MacrosFailed("mkdir")
                        /\ main_pc' = "items"
    /\ UNCHANGED <<driver, scVars, urVars, main_key, main_syntax_checker, main_items,
                   main_item, main_path, main_converted, main_content, main_log>>
    /\ UNCHANGED exVars

MainMacroUnit ==
    /\ driver = "main"
    /\ main_pc = "converting"
    /\ \E unit \in mc_todo, read_ok \in BOOLEAN : MC_NextUnit(unit, read_ok)
    /\ UNCHANGED <<driver, report, scVars, urVars, mainVars>>
    /\ UNCHANGED exVars

MainMacroAttempt ==
    /\ driver = "main"
    /\ main_pc = "converting"
    /\ \E outcome \in MainMacroOutcomes : MC_Attempt(outcome)
    /\ UNCHANGED <<driver, report, scVars, urVars, mainVars>>
    /\ UNCHANGED exVars

MainMacroWrite ==
    /\ driver = "main"
    /\ main_pc = "converting"
    /\ \E io \in {"ok", "write_raises"} : MC_Write(io)
    /\ UNCHANGED <<driver, report, scVars, urVars, mainVars>>
    /\ UNCHANGED exVars

\* convert_macros returns to line 67
MainMacroFinish ==
    /\ driver = "main"
    /\ main_pc = "converting"
    /\ MC_Finish
    /\ main_pc' = "items"
    /\ UNCHANGED <<driver, report, scVars, urVars, main_key, main_syntax_checker,
                   main_macro_converter, main_items, main_item, main_path, main_converted,
                   main_content, main_log>>
    /\ UNCHANGED exVars

\* lines 96 and 133: model_path.relative_to(dbt_models_dir) raises ValueError
\* for a model that is not below <repo>/models; the paths of models are written
\* as seen from that directory
RelativeToRaises(item) == item.kind = "model" /\ StartsWith(item.path, "../")

\* lines 132-137 and 169-174: the handler prints and the loop goes on, unless
\* the print of line 133 raises, which leaves main
AfterHandler(item) == IF RelativeToRaises(item) THEN "raised" ELSE "items"

\* lines 138-142: a model that raised is reported once the prints of the
\* handler are through; lines 169-174: a yaml file that raised is not
ItemFailed(item) ==
    IF item.kind = "model" /\ ~RelativeToRaises(item)
    THEN report' = Append(report, Issue(item.path, "Conversion Error",
                                        "Error occurred during conversion"))
    ELSE UNCHANGED report

\* line 89 comes after convert_model gave a content, line 151 before
\* convert_schema_yml is called
MkdirReached(item, result) == item.kind = "yaml" \/ result.t = "ok"

\* lines 81-110 and 146-165: the next model, or after the models the next yaml
\* file, is converted and its output directory made; with a checker its
\* content goes to check_and_correct_syntax
MainNextItem ==
    /\ driver = "main"
    /\ main_pc = "items"
    /\ IF main_items = <<>>
       THEN /\ main_pc' = "refs"
            /\ UNCHANGED <<main_items, main_item, main_path, main_converted,
                           main_content, report, scVars, dirs>>
       ELSE LET item == Head(main_items)
            IN  /\ main_items' = Tail(main_items)
                /\ main_item' = item
                /\ IF item.kind = "yaml" /\ PathName(item.path) # "schema.yml"
                   THEN /\ main_pc' = "items"
                        /\ UNCHANGED <<main_path, main_converted, main_content, report,
                                       scVars, dirs>>
                   ELSE \E result \in ConvResults(item), mkdir_ok \in BOOLEAN :
                        LET mkdir_raises == MkdirReached(item, result) /\ ~mkdir_ok
                            print_raises == result.t = "ok" /\ RelativeToRaises(item)
                        IN  /\ dirs' = IF MkdirReached(item, result) /\ mkdir_ok
                                       THEN dirs \cup {"definitions"} ELSE dirs
                            /\ CASE result = ConvRaises \/ mkdir_raises \/ print_raises ->
                                     /\ ItemFailed(item)
                                     /\ main_pc' = AfterHandler(item)
                                     /\ UNCHANGED <<main_path, main_converted,
                                                    main_content, scVars>>
                                 [] result = ConvNothing /\ ~mkdir_raises ->
                                     /\ main_pc' = "items"
                                     /\ UNCHANGED <<main_path, main_converted,
                                                    main_content, report, scVars>>
                                 [] result.t = "ok" /\ ~mkdir_raises /\ ~print_raises ->
                                     /\ main_path' = OutputPath(item)
                                     /\ main_converted' = result.content
                                     /\ main_content' = PyStr(result.content)
                                     /\ IF main_syntax_checker = "object"
                                        THEN /\ SC_Call(OutputPath(item),
                                                        PyStr(result.content))
                                             /\ main_pc' = "checking"
                                        ELSE /\ main_pc' = "write"
                                             /\ UNCHANGED <<report, scVars>>
    /\ UNCHANGED <<driver, mcVars, urVars, macros, fs, fs_writes, stdout, main_key,
                   main_syntax_checker, main_macro_converter, main_log>>
    /\ UNCHANGED exVars

MainCheckFirst ==
    /\ driver = "main"
    /\ main_pc = "checking"
    /\ \E outcome \in MainCheckOutcomes : SC_FirstExchange(outcome)
    /\ UNCHANGED <<driver, mcVars, urVars, ioVars, mainVars>>
    /\ UNCHANGED exVars

MainCheckRetry ==
    /\ driver = "main"
    /\ main_pc = "checking"
    /\ \E outcome \in MainCheckOutcomes : SC_RetryExchange(outcome)
    /\ UNCHANGED <<driver, mcVars, urVars, ioVars, mainVars>>
    /\ UNCHANGED exVars

\* the pair the checker returned thrown away
AcceptedNever(ret, content) == content

\* lines 104 and 161: the first element of the returned pair is assigned to the
\* content; an exception leaves the content as it was
Accepted(ret, content) == IF ret = Escaped THEN content ELSE ret.content

\* lines 102-108 and 159-165: the pair check_and_correct_syntax returned takes
\* the place of the content; an exception leaves the content as it was
MainChecked ==
    /\ driver = "main"
    /\ main_pc = "checking"
    /\ SC_Return
    /\ main_content' = Accepted(sc_ret, main_content)
    /\ main_pc' = "write"
    /\ UNCHANGED <<driver, mcVars, urVars, ioVars, main_key, main_syntax_checker,
                   main_macro_converter, main_items, main_item, main_path,
                   main_converted, main_log>>
    /\ UNCHANGED exVars

\* lines 120-131: the records a model's content may call for
ContentIssues(item, text) ==
    (IF item.kind = "model" /\ Contains(text, "-- TODO:")
     THEN <<Issue(item.path, "Incomplete Conversion",
                  "This model contains TODO comments indicating manual review is needed.")>>
     ELSE <<>>)
    \o
    (IF item.kind = "model" /\ Contains(text, "dbt_utils")
     THEN <<Issue(item.path, "Unconverted dbt_utils Reference",
                  "This model still contains references to dbt_utils that couldn't "
                  \o "be automatically converted.")>>
     ELSE <<>>)

\* lines 112-131 and 166: write_text opens the file, which empties it, and
\* writes; either step may raise, and the handler of the loop catches it
MainWrite ==
    /\ driver = "main"
    /\ main_pc = "write"
    /\ LET text == IF IsStr(main_content) THEN main_content.v ELSE ""
       IN  \E io \in {"ok", "open_raises", "write_raises"} :
           /\ main_pc' = IF io = "ok" THEN "items" ELSE AfterHandler(main_item)
           /\ CASE io = "ok" ->
                 /\ fs' = WithFile(fs, main_path, text)
                 /\ fs_writes' = Append(fs_writes,
                                        Write(main_item.path, main_path, text, TRUE))
                 /\ main_log' = Append(main_log,
                        Persisted(main_item, main_path, main_converted, text, TRUE))
                 /\ report' = report \o ContentIssues(main_item, text)
             [] io = "open_raises" ->
                 /\ ItemFailed(main_item)
                 /\ UNCHANGED <<fs, fs_writes, main_log>>
             [] io = "write_raises" ->
                 /\ fs' = WithFile(fs, main_path, "")
                 /\ fs_writes' = Append(fs_writes,
                                        Write(main_item.path, main_path, text, FALSE))
                 /\ main_log' = Append(main_log,
                        Persisted(main_item, main_path, main_converted, text, FALSE))
                 /\ ItemFailed(main_item)
    /\ UNCHANGED <<driver, scVars, mcVars, urVars, macros, dirs, stdout, main_key,
                   main_syntax_checker, main_macro_converter, main_items, main_item,
                   main_path, main_converted, main_content>>
    /\ UNCHANGED exVars

\* lines 176-179: with a key and a converter, update_macro_references is entered
MainRefs ==
    /\ driver = "main"
    /\ main_pc = "refs"
    /\ IF main_key /\ main_macro_converter = "object"
       THEN /\ UR_Start
            /\ main_pc' = IF ur_pc' = "done" THEN "report" ELSE "rewriting"
       ELSE /\ main_pc' = "report"
            /\ UNCHANGED <<urVars, ioVars>>
    /\ UNCHANGED <<driver, report, scVars, mcVars, main_key, main_syntax_checker,
                   main_macro_converter, main_items, main_item, main_path, main_converted,
                   main_content, main_log>>
    /\ UNCHANGED exVars

MainRefsFile ==
    /\ driver = "main"
    /\ main_pc = "rewriting"
    /\ \E path \in ur_todo, io \in {"ok", "write_raises"} : UR_File(path, io)
    /\ UNCHANGED <<driver, report, scVars, mcVars, mainVars>>
    /\ UNCHANGED exVars

MainRefsAdvance ==
    /\ driver = "main"
    /\ main_pc = "rewriting"
    /\ \E scan_ok \in BOOLEAN : UR_Advance(scan_ok)
    /\ main_pc' = IF ur_pc' = "done" THEN "report" ELSE "rewriting"
    /\ UNCHANGED <<driver, report, scVars, mcVars, main_key, main_syntax_checker,
                   main_macro_converter, main_items, main_item, main_path, main_converted,
                   main_content, main_log>>
    /\ UNCHANGED exVars

\* line 188: generate_report, the last step; an exception in it leaves main
MainReport ==
    /\ driver = "main"
    /\ main_pc = "report"
    /\ \E report_ok \in BOOLEAN : main_pc' = IF report_ok THEN "done" ELSE "raised"
    /\ UNCHANGED <<driver, report, scVars, mcVars, urVars, ioVars, main_key,
                   main_syntax_checker, main_macro_converter, main_items, main_item,
                   main_path, main_converted, main_content, main_log>>
    /\ UNCHANGED exVars

NextMain ==
    \/ MainSetup \/ MainMacros \/ MainMacroUnit \/ MainMacroAttempt \/ MainMacroWrite
    \/ MainMacroFinish \/ MainNextItem \/ MainCheckFirst \/ MainCheckRetry
    \/ MainChecked \/ MainWrite \/ MainRefs \/ MainRefsFile \/ MainRefsAdvance
    \/ MainReport

vars == <<driver, report, scVars, mcVars, urVars, ioVars, mainVars, exVars>>

SpecRepair == InitRepair /\ [][NextRepair]_vars

SpecMacro == InitMacro /\ [][NextMacro]_vars

SpecRewrite == InitRewrite /\ [][NextRewrite]_vars

SpecMain == InitMain /\ [][NextMain]_vars

\* check_and_correct_syntax called on its own, or from a run of main
SpecBypass == (InitRepair \/ InitMain) /\ [][NextRepair \/ NextMain]_vars

SpecExtract == InitExtract /\ [][NextExtract]_vars

(***************************************************************************)
(* Properties of check_and_correct_syntax                                  *)
(***************************************************************************)

\* the exchanges of the current call that raised
Raised(log) == {i \in 1..Len(log) : log[i].outcome = Raise}

\* the call has made exchanges and every one of them raised
AllExchangesRaised == sc_log # <<>> /\ Raised(sc_log) = 1..Len(sc_log)

\* the last exchange of the call gave a text that is not the validity token
LastText == Strip(sc_log[Len(sc_log)].outcome.v)
CorrectionAnswered ==
    /\ sc_pc = "done"
    /\ sc_log # <<>>
    /\ sc_log[Len(sc_log)].outcome # Raise
    /\ Lower(LastText) # "valid"

\* what extraction gives for that text
LastExtraction == _extract_corrected_code(LastText, _get_file_type(sc_file_path))

\* the records the current call appended
Appended == SubSeq(report, sc_mark + 1, Len(report))

\* C1: when every exchange of a call raises (the first attempt and the retry),
\* the call returns (original content, None), no exception escapes it, and it
\* appends no record to the report.
C1_RepairNonFatal ==
    AllExchangesRaised =>
        /\ Appended = <<>>
        /\ sc_ret # Escaped
        /\ sc_pc = "done" =>
              /\ Len(sc_log) = 2
              /\ sc_ret = Returned(sc_content, PyNone)

C1_Witness ==
    /\ sc_pc = "done"
    /\ AllExchangesRaised
    /\ Len(sc_log) = 2
    /\ sc_mark > 0

\* C3: whenever a call returns content replaced by an extracted correction,
\* exactly one Syntax Correction record for that file was appended during the
\* call, on the first attempt and on the retry alike.
C3_EveryCorrectionRecorded ==
    (CorrectionAnswered /\ LastExtraction # "") =>
        /\ sc_ret = Returned(PyStr(LastExtraction), PyStr(LastText))
        /\ Appended = <<Issue(sc_file_path, "Syntax Correction",
                              "The following changes were made: " \o LastText)>>

\* C4: when the response is not the validity token and extraction gives the
\* empty result, the call returns the original content with the trimmed
\* response as its second element.
C4_UnparseableKeepsOriginal ==
    (CorrectionAnswered /\ LastExtraction = "") =>
        sc_ret = Returned(sc_content, PyStr(LastText))

C4_Witness ==
    /\ CorrectionAnswered
    /\ LastExtraction = ""
    /\ LastText # ""
    /\ Len(sc_log) > 1
    /\ sc_ret = Returned(sc_content, PyStr(LastText))

Responded == sc_pc = "done" /\ sc_log # <<>> /\ sc_log[Len(sc_log)].outcome # Raise

\* C16: a response that, trimmed and in lower case, is "valid" makes the call
\* return (original content, None) and append no record; every other response,
\* one that only contains the token included, is a correction attempt: the
\* extraction decides the content and the response is the second element.
C16_ValidityClassification ==
    Responded =>
        IF Lower(LastText) = "valid"
        THEN /\ sc_ret = Returned(sc_content, PyNone)
             /\ Appended = <<>>
        ELSE /\ sc_ret.corrections = PyStr(LastText)
             /\ sc_ret.content = PyStr(IF LastExtraction # "" THEN LastExtraction
                                       ELSE sc_content.v)

C16_Witness ==
    /\ Responded
    /\ sc_log[Len(sc_log)].outcome = Text(" valid\n")
    /\ sc_ret = Returned(sc_content, PyNone)
    /\ sc_mark > 0
    /\ \E i \in 1..sc_mark : report[i].description =
           "The following changes were made: Valid."

(***************************************************************************)
(* Properties of _extract_corrected_code                                   *)
(***************************************************************************)

\* a fenced block as a reader of the response sees it: what stands between an
\* opening fence and the next fence, its first line being the tag
Block(inner) ==
    [inner |-> inner,
     tag |-> IF Contains(inner, "\n") THEN Slice(inner, 1, Find(inner, "\n", 1) - 1)
             ELSE inner,
     body |-> IF Contains(inner, "\n") THEN From(inner, Find(inner, "\n", 1) + 1)
              ELSE ""]

\* the fenced blocks of a response from position p on, fences pairing up in
\* the order they come
RECURSIVE BlocksFrom(_, _)
BlocksFrom(s, p) ==
    LET o == Find(s, Fence, p)
    IN  IF o = 0 THEN <<>>
        ELSE LET c == Find(s, Fence, o + Len(Fence))
             IN  IF c = 0 THEN <<>>
                 ELSE <<Block(Slice(s, o + Len(Fence), c - 1))>>
                      \o BlocksFrom(s, c + Len(Fence))

Blocks == BlocksFrom(ex_result, 1)

IsTagged(b) == b.tag = ex_file_type
IsGeneric(b) == b.tag = ""
BeginsAsTagged(b) == StartsWith(b.tag, ex_file_type)
WellFormed(b) == JsonLoads(Strip(b.body))

Last(seq) == seq[Len(seq)]

FirstLabelEnd(s, low) ==
    LET at == {p \in 1..Len(s) : \E l \in Labels : StartsAt(low, p, l)}
    IN  IF at = {} THEN 0
        ELSE LET first == CHOOSE p \in at : \A q \in at : p <= q
             IN  first + Len(CHOOSE l \in Labels : StartsAt(low, first, l))

\* C12: for any kind, a response without a fenced block but with a label gives
\* the trimmed text from after the first label to the end of the response; the
\* line scan of the kind does not come before it.
C12_LabeledSection ==
    (/\ ex_pc = "returned"
     /\ ~Contains(ex_result, Fence)
     /\ FirstLabelEnd(ex_result, Lower(ex_result)) # 0)
    => ex_ret = Strip(From(ex_result, FirstLabelEnd(ex_result, Lower(ex_result))))

C12_Witness ==
    /\ ex_pc = "returned"
    /\ ex_file_type = "sqlx"
    /\ ex_result = "SELECT 4\nfixed CODE:\n{\"c\": 3}\nCorrected version: SELECT 1\n"
    /\ ex_ret = "{\"c\": 3}\nCorrected version: SELECT 1"

\* the candidate of the first strategy for json: what follows the kind's name in
\* the last block whose tag begins with it, trimmed; <<>> when there is none
KindCandidateOf(blocks) ==
    LET begun == SelectSeq(blocks, BeginsAsTagged)
    IN  IF begun = <<>> THEN <<>>
        ELSE <<Strip(From(Last(begun).inner, Len(ex_file_type) + 1))>>

KindCandidate == KindCandidateOf(Blocks)

\* the candidate of the second strategy: what stands between the fences of the
\* last block, trimmed
AnyCandidateOf(blocks) == IF blocks = <<>> THEN <<>> ELSE <<Strip(Last(blocks).inner)>>

AnyCandidate == AnyCandidateOf(Blocks)

RejectedCandidate(c) == c # <<>> /\ ~JsonLoads(c[1])
AcceptedCandidate(c) == c # <<>> /\ JsonLoads(c[1])

\* C13: for json, a candidate from a fenced block that does not parse is not
\* the result: the chain goes on as if the block were not there, to the last
\* block of any kind, then to the labeled section and the line scan.
C13_JsonRejection ==
    (ex_pc = "returned" /\ ex_file_type = "json") =>
        LET blocks == Blocks
            kind == KindCandidateOf(blocks)
            any == AnyCandidateOf(blocks)
            kind_ok == AcceptedCandidate(kind)
            any_ok == AcceptedCandidate(any)
        IN  ((kind # <<>> /\ ~kind_ok) \/ (any # <<>> /\ ~any_ok))
            => ex_ret = IF kind_ok THEN kind[1]
                        ELSE IF any_ok THEN any[1]
                        ELSE GeneralExtraction(ex_result, "json")

C13_Witness ==
    /\ ex_pc = "returned"
    /\ ex_file_type = "json"
    /\ RejectedCandidate(KindCandidate)
    /\ AcceptedCandidate(AnyCandidate)
    /\ KindCandidate[1] = "{\"a\": 1,}"
    /\ ex_ret = AnyCandidate[1]

\* C18: for every kind, a response without a block tagged with the kind but
\* with an untagged block (for json, one with a well-formed body) gives the
\* trimmed body of the last untagged block.
C18_GenericBlockFallback ==
    (/\ ex_pc = "returned"
     /\ SelectSeq(Blocks, IsTagged) = <<>>
     /\ \E i \in 1..Len(Blocks) :
            IsGeneric(Blocks[i]) /\ (ex_file_type = "json" => WellFormed(Blocks[i])))
    => ex_ret = Strip(Last(SelectSeq(Blocks, IsGeneric)).body)

(***************************************************************************)
(* Properties of the run without a credential                              *)
(***************************************************************************)

\* C2: without a credential check_and_correct_syntax returns its content
\* argument, whatever it is, and None, after no exchange and no record; and a
\* run of main without a credential makes no exchange, neither for a macro nor
\* for a model or a yaml file, and writes what the converter gave.
C2_CredentialBypass ==
    /\ (~sc_key /\ sc_calls > 0) =>
           /\ sc_pc \in {"idle", "done"}
           /\ sc_ret = Returned(sc_content, PyNone)
           /\ sc_log = <<>>
           /\ sc_sleeps = 0
           /\ Appended = <<>>
    /\ (driver = "main" /\ ~main_key) =>
           /\ sc_log = <<>>
           /\ mc_log = <<>>
           /\ mc_answers = NoFiles
           /\ main_pc # "checking"
           /\ \A i \in 1..Len(main_log) : main_log[i].written = main_log[i].converted
           /\ \A i \in 1..Len(main_log) :
                  (main_log[i].complete /\ main_pc = "done") =>
                      fs[main_log[i].path] = main_log[i].converted

C2_Witness ==
    /\ driver = "main"
    /\ ~main_key
    /\ main_pc = "done"
    /\ {main_log[i].item.kind : i \in 1..Len(main_log)} = {"model", "yaml"}
    /\ \A i \in 1..Len(main_log) : main_log[i].complete

(***************************************************************************)
(* Properties of _convert_with_anthropic and convert_macros                *)
(***************************************************************************)

\* the exchanges of the current call that gave a text
Answered(log) == {i \in 1..Len(log) : log[i].outcome # Raise}

\* C5: for max_retries >= 1 a call makes at most max_retries exchanges; it
\* returns the trimmed text of the first exchange that succeeds and makes none
\* after it; it raises exactly when max_retries exchanges in a row failed; it
\* sleeps once between two attempts and not after the last failed one.
C5_RetryBudget ==
    mc_max_retries >= 1 =>
        /\ Len(mc_log) <= mc_max_retries
        /\ Answered(mc_log) \subseteq {Len(mc_log)}
        /\ Answered(mc_log) # {} =>
               mc_ret = Gave(PyStr(Strip(mc_log[Len(mc_log)].outcome.v)))
        /\ mc_ret = Escaped <=>
               (Len(mc_log) = mc_max_retries /\ Answered(mc_log) = {})
        /\ mc_ret = NoReturn <=>
               (Len(mc_log) < mc_max_retries /\ Answered(mc_log) = {})
        /\ mc_sleeps = Cardinality(Raised(mc_log)) - (IF mc_ret = Escaped THEN 1 ELSE 0)

C5_Witness ==
    /\ mc_ret = Escaped
    /\ mc_max_retries = DefaultMaxRetries
    /\ Len(mc_log) = DefaultMaxRetries
    /\ mc_sleeps = DefaultMaxRetries - 1

\* the writes a unit made
WritesBy(unit) == {i \in 1..Len(fs_writes) : fs_writes[i].by = unit}

\* the lines printed about a unit
Printed(msg, unit) == \E i \in 1..Len(stdout) : stdout[i] = Line(msg, unit)

\* the unit went through: its output was written and convert_macros said so
Converted(unit) == Printed("Successfully converted", unit)

\* the writes to a path that went through
CompleteWrites(path) ==
    {i \in 1..Len(fs_writes) : fs_writes[i].path = path /\ fs_writes[i].complete}

\* what the file at path holds when only the units that went through had run:
\* what the last of their writes to it wrote
LastComplete(path) ==
    fs_writes[CHOOSE i \in CompleteWrites(path) :
                  \A j \in CompleteWrites(path) : j <= i].content

\* convert_macros has returned from its loop over the units
LoopDone == mc_pc = "done" /\ mc_caller = "convert_macros" /\ "includes" \in dirs

\* C6: whatever units fail (retries exhausted, a read or a write that raises),
\* convert_macros attempts every unit, returns without raising, and the output
\* of every unit that did not fail is what it would be without the failing ones.
C6_FailureIsolation ==
    LoopDone =>
        /\ ~mc_raised
        /\ \A unit \in GlobSql(macros.files) : Printed("Converting macro file", unit)
        /\ \A unit \in GlobSql(macros.files) :
               Converted(unit) =>
                   /\ OutputFile(unit) \in DOMAIN fs
                   /\ fs[OutputFile(unit)] = LastComplete(OutputFile(unit))

\* C7: a unit whose response is not empty after trimming gets exactly one
\* output file, includes/<stem>.js, holding the trimmed response, and no two
\* units write the same file.
C7_OneArtifactPerUnit ==
    /\ \A unit \in DOMAIN mc_answers :
           (Strip(mc_answers[unit]) # "" /\ Converted(unit)) =>
               \E i \in 1..Len(fs_writes) :
                   /\ WritesBy(unit) = {i}
                   /\ fs_writes[i] = Write(unit, "includes/" \o PathStem(unit) \o ".js",
                                           Strip(mc_answers[unit]), TRUE)
    /\ \A i, j \in 1..Len(fs_writes) :
           fs_writes[i].path = fs_writes[j].path => fs_writes[i].by = fs_writes[j].by

\* C8: a unit whose response is empty after trimming gets no output file (no
\* write at all, so no empty file either); a warning is printed and the loop
\* goes on to the next unit.
C8_EmptySkipped ==
    \A unit \in DOMAIN mc_answers :
        Strip(mc_answers[unit]) = "" =>
            /\ WritesBy(unit) = {}
            /\ Printed("Warning: Empty conversion result", unit)
            /\ ~Printed("Error converting macro", unit)
            /\ ~mc_raised
            /\ mc_unit = unit => mc_pc \in {"next", "done"}

C8_Witness ==
    /\ mc_pc = "exchange"
    /\ \E unit \in DOMAIN mc_answers :
           /\ unit # mc_unit
           /\ mc_answers[unit] = ""
           /\ OutputFile(unit) \notin DOMAIN fs

\* a text that is one fenced block: the fence, a language tag to the end of the
\* line, the body, the fence
SingleFenced(text) ==
    /\ StartsWith(text, Fence)
    /\ EndsWith(text, Fence)
    /\ Len(FindAllBlocks(text, Fence, 1)) = 1
    /\ Find(text, "\n", 1) > Len(Fence) + 1

\* the body of such a block, trimmed
FencedBody(text) ==
    Strip(Slice(text, Find(text, "\n", 1) + 1, Len(text) - Len(Fence)))

\* C9: when the response for a unit is a single fenced block, its output file
\* holds exactly the trimmed body of the block, without fences or tag.
C9_FenceStripped ==
    \A unit \in DOMAIN mc_answers :
        (SingleFenced(mc_answers[unit]) /\ Converted(unit)) =>
            \A i \in WritesBy(unit) : fs_writes[i].content = FencedBody(mc_answers[unit])

(***************************************************************************)
(* Properties of update_macro_references                                   *)
(***************************************************************************)

\* the calls of _update_references_in_file on path in runs before this one
EarlierVisits(i) ==
    {j \in 1..(i - 1) : ur_log[j].path = ur_log[i].path /\ ur_log[j].run < ur_log[i].run}

\* the call read the file and either had nothing to change or wrote the change
Clean(visit) == visit.outcome \in {"unchanged", "written"}

\* C10: the substitution applied twice gives what it gives applied once: what a
\* call leaves in a file holds neither "{{ " nor " }}", and a later run of
\* update_macro_references over a file an earlier run left in order writes
\* nothing.
C10_RewriteIdempotent ==
    \A i \in 1..Len(ur_log) :
        /\ Clean(ur_log[i]) =>
               /\ Rewritten(ur_log[i].after) = ur_log[i].after
               /\ ~Contains(ur_log[i].after, "{{ ")
               /\ ~Contains(ur_log[i].after, " }}")
        /\ (EarlierVisits(i) # {} /\ \A j \in EarlierVisits(i) : Clean(ur_log[j])) =>
               ur_log[i].outcome \in {"unchanged", "read_raises"}

\* the run of update_macro_references that has just returned met no exception:
\* every file it visited was read and, where needed, written, and the scan of
\* the directory went through
SweepWentThrough ==
    /\ ur_pc = "done"
    /\ ur_run > 0
    /\ \A i \in 1..Len(ur_log) : Clean(ur_log[i])
    /\ \A i \in 1..Len(stdout) : stdout[i].msg # "Error updating macro references"

\* the artifacts of the two kinds below the output root
Swept == {path \in DOMAIN fs : PathSuffix(path) \in {".sqlx", ".js"}}

\* C14: after update_macro_references has returned, the substitution has been
\* applied to every .sqlx and .js artifact below the output root, the .js files
\* convert_macros writes to includes among them.
C14_SweepCoverage ==
    SweepWentThrough =>
        \A path \in Swept :
            \E i \in 1..Len(ur_log) :
                /\ ur_log[i].path = path
                /\ ur_log[i].run = ur_run
                /\ fs[path] = ur_log[i].after

(***************************************************************************)
(* Properties of main                                                      *)
(***************************************************************************)

\* what write_text is given: the content, or "" when it is None
WriteText(content) == IF IsStr(content) THEN content.v ELSE ""

\* the content main is about to write is what the check returned, or what the
\* converter gave when there is no checker or the check raised
ContentToWrite ==
    IF main_syntax_checker = "object" /\ sc_ret # Escaped
    THEN sc_ret.content
    ELSE PyStr(main_converted)

\* a step of main's loops that writes an artifact
WritesArtifact == main_log' # main_log

\* C17: an artifact is written only after its check has returned, and with the
\* content the check returned, or the converter's when there is no checker or
\* the check raised; update_macro_references starts only after convert_macros
\* has returned and the last model and yaml file are dealt with; once it has
\* started, only it writes.
C17_StageOrder ==
    /\ [](driver = "main" =>
            /\ main_pc = "write" => (sc_pc = "idle" /\ main_content = ContentToWrite)
            /\ ur_run > 0 =>
                  /\ mc_pc \in {"idle", "done"}
                  /\ main_items = <<>>
                  /\ main_pc \in {"rewriting", "report", "done", "raised"})
    /\ [][driver = "main" =>
            /\ WritesArtifact =>
                  /\ main_pc = "write"
                  /\ main_log' = Append(main_log,
                         Persisted(main_item, main_path, main_converted,
                                   WriteText(ContentToWrite),
                                   main_log'[Len(main_log')].complete))
            /\ (ur_run > 0 /\ fs_writes' # fs_writes) =>
                  /\ Len(ur_log') = Len(ur_log) + 1
                  /\ ~WritesArtifact
                  /\ mc_log' = mc_log]_vars

C17_Witness ==
    /\ driver = "main"
    /\ main_pc = "done"
    /\ ur_run = 1
    /\ mc_log # <<>>
    /\ \E i \in 1..Len(main_log), j \in 1..Len(ur_log) :
           /\ main_log[i].written = "SELECT 1"
           /\ main_log[i].converted = "SELECT {{ x }}"
           /\ main_log[i].complete
           /\ ur_log[j].path = main_log[i].path
           /\ ur_log[j].before = "SELECT 1"

\* the steps of the loops over the models and the yaml files
InLoops(pc) == pc \in {"items", "checking", "write"}

\* C19: whatever raises for an item of the loops over the models and the yaml
\* files, in the handler of the loop as well, is caught there: the loops go on
\* with the next item and end in the reference update and the report.
C19_BatchNonAbort ==
    [][(driver = "main" /\ InLoops(main_pc)) => main_pc' \in {"items", "checking", "write", "refs"}]_vars

\* the construction of the MacroConverter raised
MacroConverterFailed ==
    \E i \in 1..Len(report) :
        report[i] = Issue("macro_conversion", "Macro Conversion Error",
                          "Error occurred during macro conversion: MacroConverter.__init__")

\* C20: when the construction of the SyntaxChecker or of the MacroConverter
\* fails, main is left at once: no macro is translated, no model or yaml file
\* converted, checked or written, no reference rewritten, no report generated.
C20_ConstructionFatal ==
    driver = "main" =>
        /\ (main_key /\ main_pc # "start" /\ main_syntax_checker = "None") =>
               main_pc = "raised"
        /\ MacroConverterFailed =>
               /\ main_pc = "raised"
               /\ main_item = NoItem
               /\ main_log = <<>>
               /\ ur_run = 0

(***************************************************************************)
(* Properties of what is left at the output location                       *)
(***************************************************************************)

\* the contents the writes to path were given, by whichever stage
ContentsWritten(path) ==
    {fs_writes[i].content : i \in {j \in 1..Len(fs_writes) : fs_writes[j].path = path}}

\* C21: at every point of a run every artifact at the output location holds a
\* complete content: what one of the writes to it was given, never the empty
\* or cut-off file of a write that did not finish, for the write after the
\* check and for the overwrite of the reference update alike.
C21_NoTornWrite ==
    driver = "main" =>
        \A path \in DOMAIN fs :
            ContentsWritten(path) # {} => fs[path] \in ContentsWritten(path)

\* C22: for json every result of the extraction that is not empty is
\* well-formed JSON, whichever strategy gave it.
C22_JsonResultParses ==
    (ex_pc = "returned" /\ ex_file_type = "json" /\ ex_ret # "") => JsonLoads(ex_ret)

\* the call returned the content it was given
ReturnedUnchanged ==
    /\ sc_pc = "done"
    /\ sc_ret # Escaped
    /\ sc_ret.content = sc_content

\* C23: a call that returns the content it was given has appended no record,
\* and no call appends more than one.
C23_RecordOnlyWhenReplaced ==
    /\ Len(Appended) <= 1
    /\ ReturnedUnchanged => Appended = <<>>

\* the strategies on fenced blocks gave the result: for sqlx whenever the
\* response has a block, for json when a candidate from a block was accepted
TakenFromBlock ==
    /\ ex_pc = "returned"
    /\ \/ ex_file_type = "sqlx" /\ Blocks # <<>>
       \/ /\ ex_file_type = "json"
          /\ \/ AcceptedCandidate(KindCandidate)
             \/ AcceptedCandidate(AnyCandidate)

\* C24: a result taken from a fenced block is the trimmed body of a block of
\* the response: it holds no fence and not the tag of the opening fence,
\* whatever that tag is.
C24_BodyOnly ==
    TakenFromBlock =>
        /\ ~Contains(ex_ret, Fence)
        /\ \E i \in 1..Len(Blocks) : ex_ret = Strip(Blocks[i].body)

\* the latest call of _update_references_in_file on path, 0 when there is none
LastVisit(path) ==
    LET on == {i \in 1..Len(ur_log) : ur_log[i].path = path}
    IN  IF on = {} THEN 0 ELSE CHOOSE i \in on : \A j \in on : j <= i

\* C25: update_macro_references writes a file only when the substitution
\* changes its content; a file with neither "{{ " nor " }}", a file that is
\* neither .js nor .sqlx, and the report are as they were; a call that fails on
\* a file leaves the file as it was, and the other files are still visited.
C25_RewriteFrame ==
    driver = "rewrite" =>
        /\ report = <<>>
        /\ \A i \in 1..Len(fs_writes) :
               \E j \in 1..Len(ur_log) :
                   /\ ur_log[j].path = fs_writes[i].path
                   /\ Rewritten(ur_log[j].before) # ur_log[j].before
        /\ \A path \in DOMAIN fs :
               /\ (LastVisit(path) = 0 /\ ur_todo = {} /\ ur_pc = "done" /\ ur_run > 0
                   /\ \A i \in 1..Len(stdout) :
                          stdout[i].msg # "Error updating macro references")
                  => PathSuffix(path) \notin {".js", ".sqlx"} \/ ~StartsWith(path, "definitions/")
               /\ LastVisit(path) # 0 =>
                      /\ PathSuffix(path) \in {".js", ".sqlx"}
                      /\ ~Clean(ur_log[LastVisit(path)]) =>
                             fs[path] = ur_log[LastVisit(path)].before
                      /\ ur_log[LastVisit(path)].outcome = "unchanged" =>
                             fs[path] = ur_log[LastVisit(path)].before

====
